---- MODULE Spec2Model ----
(***************************************************************************)
(* A model of the DADBS testnet node's correctness-sensitive core:         *)
(*   - the stake program  (src/src/program/stake.rs), executed by a host   *)
(*     that runs one instruction at a time against its account store;      *)
(*   - the consensus manager (src/src/node/consensus.rs), whose            *)
(*     validate_transaction is an async function modelled step by step;    *)
(*   - the address translator (src/src/utils/address.rs), two pure         *)
(*     functions applied to strings.                                       *)
(* The components share no state; each has its own specification.          *)
(***************************************************************************)
EXTENDS Integers, Sequences, FiniteSets, TLC

VARIABLES
    accounts,         \* host account store: key -> [lamports, owner, data]
    overflow_checks,  \* build profile of the stake program: does u64 overflow panic?
    last,             \* the instruction the host executed last (its decoded input)
    ret,              \* what that instruction returned: [value, at]
    validators,       \* ConsensusManager.validators
    consensus_timeout,\* ConsensusManager.consensus_timeout
    last_block_hash,  \* ConsensusManager.last_block_hash
    last_consensus,   \* ConsensusManager.last_consensus
    now,              \* the clock: Instant::now(), and the time between instructions
    call,             \* the validate_transaction call in progress (its frame)
    addr_call,        \* the DADBSAddress constructor called last
    addr_arg,         \* the &str it was given, as a sequence of code points
    addr_result       \* the Result it returned

ledgerVars == <<accounts, overflow_checks, last, ret>>
consensusVars == <<validators, consensus_timeout, last_block_hash, last_consensus, now, call>>
addressVars == <<addr_call, addr_arg, addr_result>>
vars == <<accounts, overflow_checks, last, ret,
          validators, consensus_timeout, last_block_hash, last_consensus, now, call,
          addr_call, addr_arg, addr_result>>

(***************************************************************************)
(* u64 amounts.  TLC's integers are 32 bits wide, so a u64 is kept exactly *)
(* as three decimal limbs <<h, m, l>> = h*10^18 + m*10^9 + l.              *)
(***************************************************************************)
Base == 1000000000

TwoPow64 == <<18, 446744073, 709551616>>

U64_MAX == <<18, 446744073, 709551615>>

Zero == <<0, 0, 0>>

Less(x, y) ==
    \/ x[1] < y[1]
    \/ x[1] = y[1] /\ x[2] < y[2]
    \/ x[1] = y[1] /\ x[2] = y[2] /\ x[3] < y[3]

\* the mathematical sum, not reduced
AddExact(x, y) ==
    LET l == x[3] + y[3]
        m == x[2] + y[2] + (l \div Base)
    IN  <<x[1] + y[1] + (m \div Base), m % Base, l % Base>>

\* the mathematical difference, for x >= y
SubExact(x, y) ==
    LET l  == x[3] - y[3]
        bl == IF l < 0 THEN 1 ELSE 0
        m  == x[2] - y[2] - bl
        bm == IF m < 0 THEN 1 ELSE 0
    IN  <<x[1] - y[1] - bm, m + bm * Base, l + bl * Base>>

AddOverflows(x, y) == ~Less(AddExact(x, y), TwoPow64)

wrapping_add(x, y) ==
    IF AddOverflows(x, y) THEN SubExact(AddExact(x, y), TwoPow64) ELSE AddExact(x, y)

wrapping_sub(x, y) ==
    IF Less(x, y) THEN SubExact(AddExact(x, TwoPow64), y) ELSE SubExact(x, y)

\* n * 10^9 lamports, n < 10^9
Sol(n) == <<0, n, 0>>

(***************************************************************************)
(* The host's account store.                                               *)
(***************************************************************************)
Users == {"alice", "bob"}

StakeKeys == {"stake1"}

ForgedKeys == {"forged"}

Keys == Users \cup StakeKeys \cup ForgedKeys

PROGRAM_ID == "stake_program"

SYSTEM_PROGRAM == "system_program"

OTHER_PROGRAM == "other_program"

\* Pubkey::default(), what 32 zero bytes decode to
DEFAULT_PUBKEY == "11111111111111111111111111111111"

\* An account's data: no bytes, or the 49 bytes of one borsh-encoded StakeAccount.
NoData == <<>>

\* record.try_to_vec() / record.serialize(..)
Encode(record) == <<record>>

\* StakeAccount::try_from_slice(data), for data that are there
Decode(data) == data[1]

\* struct StakeAccount
StakeAccount(owner, amount, locked_until, is_active) ==
    [owner |-> owner, amount |-> amount, locked_until |-> locked_until,
     is_active |-> is_active]

\* `space` zero bytes, as create_account allocates them, read back through borsh
ZeroedData == Encode(StakeAccount(DEFAULT_PUBKEY, Zero, 0, FALSE))

\* Rent::minimum_balance(49) under the host's default rent:
\* (128 + 49) bytes * 3480 lamports per byte-year * 2 years
RentMinimumBalance == <<0, 0, 1231920>>

\* a minimum stake one digit short
MIN_STAKE_digit_short == <<0, 1, 0>>

MIN_STAKE == <<0, 10, 0>>

Account(lamports, owner, data) == [lamports |-> lamports, owner |-> owner, data |-> data]

\* the keys whose signature a submitter can put on a transaction: their own,
\* and the throw-away keypair of a stake account about to be created
Holds(u) == {u} \cup StakeKeys

\* results of the host's own primitives
Ok(acc) == [value |-> "Ok", accounts |-> acc]

Err(e, line) == [value |-> e, at |-> line, accounts |-> <<>>]


(***************************************************************************)
(* The host's primitives the stake program calls or relies on.             *)
(***************************************************************************)
RECURSIVE SumOver(_, _)
\* the mathematical sum of the lamports of the accounts of ks
SumOver(acc, ks) ==
    IF ks = {} THEN Zero
    ELSE LET k == CHOOSE x \in ks : TRUE
         IN  AddExact(acc[k].lamports, SumOver(acc, ks \ {k}))

\* invoke(system_instruction::create_account(from, to, lamports, space, owner), ..):
\* the cross-program call needs from and to to have signed the transaction; the
\* system program then refuses a `to` already in use, allocates `space` zero
\* bytes and assigns the owner, refuses a `from` that carries data or holds too
\* little, and transfers the lamports.
create_account(acc, signers, from, to, lamports, owner) ==
    IF from \notin signers \/ to \notin signers
    THEN Err("PrivilegeEscalation", 91)
    ELSE IF acc[to].lamports # Zero \/ acc[to].data # NoData
                \/ acc[to].owner # SYSTEM_PROGRAM
    THEN Err("Custom(0)", 91)           \* SystemError::AccountAlreadyInUse
    ELSE LET allocated == [acc EXCEPT ![to].data = ZeroedData, ![to].owner = owner]
         IN  IF allocated[from].data # NoData
             THEN Err("InvalidArgument", 91)   \* `from` must not carry data
             ELSE IF Less(allocated[from].lamports, lamports)
             THEN Err("Custom(1)", 91)         \* SystemError::ResultWithNegativeLamports
             ELSE LET debited == [allocated EXCEPT ![from].lamports = SubExact(@, lamports)]
                  IN  Ok([debited EXCEPT ![to].lamports = AddExact(@, lamports)])

\* What the host checks of the accounts a program hands back with Ok, against
\* what it gave the program (base): a program may take lamports from, and write
\* the data of, only the accounts it owns, and lamports are neither made nor
\* lost.  The value is the instruction's result.
HostVerify(base, post) ==
    IF \E k \in Keys : Less(post[k].lamports, base[k].lamports) /\ base[k].owner # PROGRAM_ID
    THEN "ExternalAccountLamportSpend"
    ELSE IF \E k \in Keys : post[k].data # base[k].data /\ base[k].owner # PROGRAM_ID
    THEN "ExternalAccountDataModified"
    ELSE IF SumOver(post, Keys) # SumOver(base, Keys)
    THEN "UnbalancedInstruction"
    ELSE "Ok"

\* record.serialize(&mut &mut account.data.borrow_mut()[..]): the record is
\* written over the account's bytes, which must be there to be written
CanSerializeInto(data) == data # NoData

(***************************************************************************)
(* The stake program.  Each process_* yields [value, at, accounts, base]:  *)
(* the ProgramError (or "Ok"), the line that returned it, the accounts as  *)
(* the program left them and the accounts the host checks them against.    *)
(* The program writes through the AccountInfo borrows, in place: what it   *)
(* wrote before a later statement fails stays written when it returns.     *)
(***************************************************************************)
Done(acc, base) == [value |-> "Ok", at |-> 0, accounts |-> acc, base |-> base]

\* return Err(e), a failing `?` or a panic at `line`: acc is the accounts with
\* every write the program made before that line; nothing is checked of them
Fail(e, line, acc) == [value |-> e, at |-> line, accounts |-> acc, base |-> <<>>]

process_create_stake(acc, oc, signers, staker, stake, amount, lock_period) ==
    IF Less(amount, MIN_STAKE)
    THEN Fail("InvalidArgument", 74, acc)
    ELSE LET stake_account_data == StakeAccount(staker, amount, lock_period, TRUE)
             rent_lamports == RentMinimumBalance
         IN  IF oc /\ AddOverflows(amount, rent_lamports)
             THEN Fail("ProgramFailedToComplete", 95, acc)   \* panic: attempt to add with overflow
             ELSE LET created == create_account(acc, signers, staker, stake,
                                                wrapping_add(amount, rent_lamports),
                                                PROGRAM_ID)
                  IN  IF created.value # "Ok"
                      THEN Fail(created.value, 104, acc)     \* the call is atomic: nothing made
                      ELSE IF ~CanSerializeInto(created.accounts[stake].data)
                      THEN Fail("BorshIoError", 107, created.accounts)
                      ELSE Done([created.accounts EXCEPT ![stake].data = Encode(stake_account_data)],
                                created.accounts)

\* process_withdraw with the lock tested before the requester
process_withdraw_lock_first(acc, oc, staker, stake, amount) ==
    IF acc[stake].owner # PROGRAM_ID
    THEN Fail("IncorrectProgramId", 126, acc)
    ELSE IF acc[stake].data = NoData
    THEN Fail("BorshIoError", 130, acc)
    ELSE LET stake_data == Decode(acc[stake].data)
         IN  IF stake_data.locked_until > 0
             THEN Fail("InvalidArgument", 139, acc)
             ELSE IF stake_data.owner # staker
             THEN Fail("InvalidAccountData", 134, acc)
             ELSE IF Less(stake_data.amount, amount)
             THEN Fail("InsufficientFunds", 144, acc)
             ELSE IF oc /\ Less(acc[stake].lamports, amount)
             THEN Fail("ProgramFailedToComplete", 148, acc)  \* panic: attempt to subtract with overflow
             ELSE LET debited == [acc EXCEPT ![stake].lamports = wrapping_sub(@, amount)]
                  IN  IF oc /\ AddOverflows(debited[staker].lamports, amount)
                      THEN Fail("ProgramFailedToComplete", 149, debited)
                      ELSE LET credited == [debited EXCEPT
                                              ![staker].lamports = wrapping_add(@, amount)]
                               updated  == [stake_data EXCEPT !.amount = SubExact(@, amount)]
                           IN  IF ~CanSerializeInto(credited[stake].data)
                               THEN Fail("BorshIoError", 153, credited)
                               ELSE Done([credited EXCEPT ![stake].data = Encode(updated)], acc)

\* process_withdraw with the lamports moved before the lock and the amount are
\* tested
process_withdraw_transfer_first(acc, oc, staker, stake, amount) ==
    IF acc[stake].owner # PROGRAM_ID
    THEN Fail("IncorrectProgramId", 126, acc)
    ELSE IF acc[stake].data = NoData
    THEN Fail("BorshIoError", 130, acc)
    ELSE LET stake_data == Decode(acc[stake].data)
         IN  IF stake_data.owner # staker
             THEN Fail("InvalidAccountData", 134, acc)
             ELSE IF oc /\ Less(acc[stake].lamports, amount)
             THEN Fail("ProgramFailedToComplete", 148, acc)
             ELSE LET debited == [acc EXCEPT ![stake].lamports = wrapping_sub(@, amount)]
                  IN  IF oc /\ AddOverflows(debited[staker].lamports, amount)
                      THEN Fail("ProgramFailedToComplete", 149, debited)
                      ELSE LET credited == [debited EXCEPT
                                              ![staker].lamports = wrapping_add(@, amount)]
                           IN  IF stake_data.locked_until > 0
                               THEN Fail("InvalidArgument", 139, credited)
                               ELSE IF Less(stake_data.amount, amount)
                               THEN Fail("InsufficientFunds", 144, credited)
                               ELSE IF ~CanSerializeInto(credited[stake].data)
                               THEN Fail("BorshIoError", 153, credited)
                               ELSE Done([credited EXCEPT ![stake].data =
                                             Encode([stake_data EXCEPT
                                                       !.amount = SubExact(@, amount)])],
                                         acc)

process_withdraw(acc, oc, staker, stake, amount) ==
    IF acc[stake].owner # PROGRAM_ID
    THEN Fail("IncorrectProgramId", 126, acc)
    ELSE IF acc[stake].data = NoData
    THEN Fail("BorshIoError", 130, acc)
    ELSE LET stake_data == Decode(acc[stake].data)
         IN  IF stake_data.owner # staker
             THEN Fail("InvalidAccountData", 134, acc)
             ELSE IF stake_data.locked_until > 0
             THEN Fail("InvalidArgument", 139, acc)
             ELSE IF Less(stake_data.amount, amount)
             THEN Fail("InsufficientFunds", 144, acc)
             ELSE IF oc /\ Less(acc[stake].lamports, amount)
             THEN Fail("ProgramFailedToComplete", 148, acc)  \* panic: attempt to subtract with overflow
             ELSE LET debited == [acc EXCEPT ![stake].lamports = wrapping_sub(@, amount)]
                  IN  IF oc /\ AddOverflows(debited[staker].lamports, amount)
                      THEN Fail("ProgramFailedToComplete", 149, debited)
                      ELSE LET credited == [debited EXCEPT
                                              ![staker].lamports = wrapping_add(@, amount)]
                               updated  == [stake_data EXCEPT !.amount = SubExact(@, amount)]
                           IN  IF ~CanSerializeInto(credited[stake].data)
                               THEN Fail("BorshIoError", 153, credited)
                               ELSE Done([credited EXCEPT ![stake].data = Encode(updated)], acc)

\* The decoded instruction and its account list, as the host hands them over.
Instruction(kind, submitter, signers, staker, stake, amount, lock_period) ==
    [kind |-> kind, submitter |-> submitter, signers |-> signers, staker |-> staker,
     stake |-> stake, amount |-> amount, lock_period |-> lock_period]

NoInstruction == Instruction("None", "none", {}, "none", "none", Zero, 0)

process_instruction(acc, oc, ix) ==
    CASE ix.kind = "Undecodable" -> Fail("BorshIoError", 46, acc)
      [] ix.kind = "CreateStakeShort" -> Fail("NotEnoughAccountKeys", 68, acc)
      [] ix.kind = "WithdrawShort" -> Fail("NotEnoughAccountKeys", 121, acc)
      [] ix.kind = "CreateStake" ->
            process_create_stake(acc, oc, ix.signers, ix.staker, ix.stake, ix.amount,
                                 ix.lock_period)
      [] ix.kind = "Withdraw" -> process_withdraw(acc, oc, ix.staker, ix.stake, ix.amount)

\* An account left with no lamports does not outlive the transaction.
Purge(acc) ==
    [k \in Keys |-> IF acc[k].lamports = Zero
                    THEN Account(Zero, SYSTEM_PROGRAM, NoData)
                    ELSE acc[k]]

\* The host calls the entrypoint on the accounts the instruction names.  A
\* program that fails leaves them as it wrote them: neither the program nor the
\* host's contract (atomic create and transfer primitives, enforced ownership)
\* undoes a write made before the failure.  Of a program that returns Ok the
\* host enforces ownership and balance: a result that fails HostVerify is
\* refused and has no effect.
Execute(acc, oc, ix) ==
    LET r == process_instruction(acc, oc, ix)
    IN  IF r.value # "Ok"
        THEN [ret |-> [value |-> r.value, at |-> r.at], accounts |-> r.accounts]
        ELSE LET v == HostVerify(r.base, r.accounts)
             IN  IF v = "Ok"
                 THEN [ret |-> [value |-> "Ok", at |-> 0], accounts |-> Purge(r.accounts)]
                 ELSE [ret |-> [value |-> v, at |-> 0], accounts |-> acc]


(***************************************************************************)
(* The ledger's inputs and its specification.  The host executes one       *)
(* instruction at a time: Submit runs it to its result, Observe hands the  *)
(* result to the submitter and leaves the host idle for the next one.      *)
(***************************************************************************)
\* amounts an instruction may carry: around the minimum stake and around 2^64
Amounts ==
    {Zero, Sol(5), <<0, 9, 999999999>>, Sol(10), Sol(15),
     SubExact(TwoPow64, RentMinimumBalance), U64_MAX}

LockPeriods == {-1, 0, 1}

\* the accounts an instruction may name as the staker and as the stake account
StakerChoices == Users \cup StakeKeys

StakeChoices == StakeKeys \cup ForgedKeys

\* a transaction is signed by its submitter (who pays its fee), and may be
\* signed with the stake account's keypair as well
SignerChoices(u) == {{u}, Holds(u)}

InitialAccounts ==
    [k \in Keys |->
        CASE k = "alice" -> Account(Sol(40), SYSTEM_PROGRAM, NoData)
          [] k = "bob" -> Account(Sol(12), SYSTEM_PROGRAM, NoData)
          [] k \in StakeKeys -> Account(Zero, SYSTEM_PROGRAM, NoData)
          [] k \in ForgedKeys ->
                Account(Sol(10), OTHER_PROGRAM,
                        Encode(StakeAccount("bob", Sol(10), 0, TRUE)))]

Idle == last = NoInstruction

InitLedger ==
    /\ accounts = InitialAccounts
    /\ overflow_checks \in BOOLEAN
    /\ last = NoInstruction
    /\ ret = [value |-> "Ok", at |-> 0]

\* the host executes instruction ix
Submit(ix) ==
    /\ LET r == Execute(accounts, overflow_checks, ix)
       IN  /\ accounts' = r.accounts
           /\ ret' = r.ret
    /\ last' = ix
    /\ UNCHANGED overflow_checks
    /\ UNCHANGED <<consensusVars, addressVars>>

CreateStakeInstructions ==
    UNION {{Instruction("CreateStake", u, signers, staker, stake, amount, lock_period) :
               signers \in SignerChoices(u), staker \in StakerChoices,
               stake \in StakeChoices, amount \in Amounts, lock_period \in LockPeriods} :
           u \in Users}

WithdrawInstructions ==
    UNION {{Instruction("Withdraw", u, signers, staker, stake, amount, 0) :
               signers \in SignerChoices(u), staker \in StakerChoices,
               stake \in StakeChoices, amount \in Amounts} :
           u \in Users}

\* instruction data that do not decode, or an account list that is too short
RejectedInstructions ==
    {Instruction(kind, u, {u}, "none", "none", Zero, 0) :
        u \in Users, kind \in {"Undecodable", "CreateStakeShort", "WithdrawShort"}}

CreateStake ==
    /\ Idle
    /\ \E ix \in CreateStakeInstructions : Submit(ix)

Withdraw ==
    /\ Idle
    /\ \E ix \in WithdrawInstructions : Submit(ix)

Rejected ==
    /\ Idle
    /\ \E ix \in RejectedInstructions : Submit(ix)

Observe ==
    /\ ~Idle
    /\ last' = NoInstruction
    /\ ret' = [value |-> "Ok", at |-> 0]
    /\ UNCHANGED <<accounts, overflow_checks>>
    /\ UNCHANGED <<consensusVars, addressVars>>

NextLedger == CreateStake \/ Withdraw \/ Rejected \/ Observe


(***************************************************************************)
(* The consensus manager.  validate_transaction is an async fn: its frame  *)
(* (`call`) moves from one statement to the next, and rests at the .await  *)
(* of get_validator_confirmations until the validator queried answers.     *)
(***************************************************************************)
MaxValidators == 5

MaxTime == 2

MaxTimeout == 2

DEFAULT_HASH == "Hash::default()"

\* a manager constructed with a validator already registered
new_with_validator(timeout, t) ==
    [last_block_hash |-> DEFAULT_HASH, validators |-> <<1>>,
     consensus_timeout |-> timeout, last_consensus |-> t]

\* ConsensusManager::new(timeout), at time t
new(timeout, t) ==
    [last_block_hash |-> DEFAULT_HASH, validators |-> <<>>,
     consensus_timeout |-> timeout, last_consensus |-> t]

Transaction(signature_ok, timestamp) ==
    [signature_ok |-> signature_ok, timestamp |-> timestamp]

NoTransaction == Transaction(FALSE, 0)

\* the frame of a call: where it stands, its argument, the time of the call,
\* the `now` that verify_timestamp read (-1 before it did), the answers the
\* validators queried so far gave, the loop's counter, and the verdict once
\* returned
Frame(pc, tx, called_at, checked_at, answers, confirmations, verdict) ==
    [pc |-> pc, tx |-> tx, called_at |-> called_at, checked_at |-> checked_at,
     answers |-> answers, confirmations |-> confirmations, verdict |-> verdict]

NoCall == Frame("idle", NoTransaction, 0, -1, <<>>, 0, FALSE)

\* Instant::duration_since: saturates to zero when `earlier` is later
duration_since(t, earlier) == IF t >= earlier THEN t - earlier ELSE 0

\* a signature check that lets every transaction pass
verify_signature_skipped(tx) == TRUE

verify_signature(tx) == tx.signature_ok

\* the number of validators whose verify_transaction the call has invoked: the
\* loop invokes it for the validators in order and awaits each before the next
Issued(frame) == Len(frame.answers) + (IF frame.pc = "await" THEN 1 ELSE 0)

\* a timestamp check that lets the deadline itself pass
verify_timestamp_inclusive(tx, t, timeout) == duration_since(t, tx.timestamp) <= timeout

verify_timestamp(tx, t, timeout) == duration_since(t, tx.timestamp) < timeout

\* a quorum that two thirds reach, where more than two thirds are asked for
quorum_two_thirds(confirmations, n) == confirmations >= (n * 2) \div 3

\* the final expression of validate_transaction
quorum(confirmations, n) == confirmations > (n * 2) \div 3

Returned(frame, verdict) == [frame EXCEPT !.pc = "returned", !.verdict = verdict]

Tick ==
    /\ now < MaxTime
    /\ now' = now + 1
    /\ UNCHANGED <<validators, consensus_timeout, last_block_hash, last_consensus, call>>
    /\ UNCHANGED <<ledgerVars, addressVars>>

\* a caller invokes validate_transaction(&tx)
Call ==
    /\ call.pc = "idle"
    /\ \E signature_ok \in BOOLEAN, timestamp \in 0..MaxTime :
          call' = Frame("verify_signature", Transaction(signature_ok, timestamp),
                        now, -1, <<>>, 0, FALSE)
    /\ UNCHANGED <<validators, consensus_timeout, last_block_hash, last_consensus, now>>
    /\ UNCHANGED <<ledgerVars, addressVars>>

VerifySignature ==
    /\ call.pc = "verify_signature"
    /\ call' = IF ~verify_signature(call.tx)
               THEN Returned(call, FALSE)
               ELSE [call EXCEPT !.pc = "verify_timestamp"]
    /\ UNCHANGED <<validators, consensus_timeout, last_block_hash, last_consensus, now>>
    /\ UNCHANGED <<ledgerVars, addressVars>>

VerifyTimestamp ==
    /\ call.pc = "verify_timestamp"
    /\ call' = IF ~verify_timestamp(call.tx, now, consensus_timeout)
               THEN Returned([call EXCEPT !.checked_at = now], FALSE)
               ELSE [call EXCEPT !.pc = "for_validator", !.checked_at = now]
    /\ UNCHANGED <<validators, consensus_timeout, last_block_hash, last_consensus, now>>
    /\ UNCHANGED <<ledgerVars, addressVars>>

\* `for validator in &self.validators`: query the next validator and await its
\* answer, or leave the loop
ForValidator ==
    /\ call.pc = "for_validator"
    /\ call' = IF Len(call.answers) < Len(validators)
               THEN [call EXCEPT !.pc = "await"]
               ELSE [call EXCEPT !.pc = "quorum"]
    /\ UNCHANGED <<validators, consensus_timeout, last_block_hash, last_consensus, now>>
    /\ UNCHANGED <<ledgerVars, addressVars>>

\* the validator awaited answers: validator.verify_transaction(tx).await is b
Answer ==
    /\ call.pc = "await"
    /\ \E b \in BOOLEAN :
          call' = [call EXCEPT !.pc = "for_validator",
                               !.answers = Append(@, b),
                               !.confirmations = IF b THEN @ + 1 ELSE @]
    /\ UNCHANGED <<validators, consensus_timeout, last_block_hash, last_consensus, now>>
    /\ UNCHANGED <<ledgerVars, addressVars>>

Quorum ==
    /\ call.pc = "quorum"
    /\ call' = Returned(call, quorum(call.confirmations, Len(validators)))
    /\ UNCHANGED <<validators, consensus_timeout, last_block_hash, last_consensus, now>>
    /\ UNCHANGED <<ledgerVars, addressVars>>

\* the caller has the verdict; the manager can be called again
Finish ==
    /\ call.pc = "returned"
    /\ call' = NoCall
    /\ UNCHANGED <<validators, consensus_timeout, last_block_hash, last_consensus, now>>
    /\ UNCHANGED <<ledgerVars, addressVars>>

\* the manager as ConsensusManager::new builds it
InitNew ==
    /\ now = 0
    /\ \E timeout \in 0..MaxTimeout :
          LET m == new(timeout, now)
          IN  /\ validators = m.validators
              /\ consensus_timeout = m.consensus_timeout
              /\ last_block_hash = m.last_block_hash
              /\ last_consensus = m.last_consensus
    /\ call = NoCall

\* the manager with a validator registry injected: validators 1..n
InitRegistry ==
    /\ now = 0
    /\ \E timeout \in 0..MaxTimeout, n \in 0..MaxValidators :
          LET m == new(timeout, now)
          IN  /\ validators = [i \in 1..n |-> i]
              /\ consensus_timeout = m.consensus_timeout
              /\ last_block_hash = m.last_block_hash
              /\ last_consensus = m.last_consensus
    /\ call = NoCall

(***************************************************************************)
(* The address translator (src/src/utils/address.rs).  A &str is the       *)
(* sequence of its characters' code points; its len() is its length in     *)
(* UTF-8 bytes.  A u128 is eight 16-bit limbs, the least significant first.*)
(***************************************************************************)
\* "dadbs"
DADBS_PREFIX == <<100, 97, 100, 98, 115>>

SOLANA_ADDRESS_LENGTH == 44

\* for i in 0..4
ROUNDS == 4

\* the length of the address part that from_string asks for
ADDR_PART_LENGTH == 64

\* char::len_utf8
len_utf8(c) == IF c < 128 THEN 1 ELSE IF c < 2048 THEN 2 ELSE IF c < 65536 THEN 3 ELSE 4

RECURSIVE BytesFrom(_, _)
BytesFrom(s, i) == IF i > Len(s) THEN 0 ELSE len_utf8(s[i]) + BytesFrom(s, i + 1)

\* str::len
len(s) == BytesFrom(s, 1)

\* char::is_alphanumeric, which takes the letters of every script
is_alphanumeric(c) == c \in 48..57 \/ c \in 65..90 \/ c \in 97..122 \/ c \in {233, 36136}

\* char::is_ascii_alphanumeric
is_ascii_alphanumeric(c) == c \in 48..57 \/ c \in 65..90 \/ c \in 97..122

\* char::is_ascii_hexdigit
is_ascii_hexdigit(c) == c \in 48..57 \/ c \in 65..70 \/ c \in 97..102

\* str::starts_with
starts_with(s, prefix) == Len(s) >= Len(prefix) /\ SubSeq(s, 1, Len(prefix)) = prefix

Limb == 65536

Limbs == 8

\* n as u128, for n < 2^31
U128(n) == <<n % Limb, n \div Limb, 0, 0, 0, 0, 0, 0>>

RECURSIVE AddFrom(_, _, _, _)
AddFrom(a, b, i, carry) ==
    IF i > Limbs THEN <<>>
    ELSE LET t == a[i] + b[i] + carry
         IN  <<t % Limb>> \o AddFrom(a, b, i + 1, t \div Limb)

\* u128::wrapping_add: the carry out of the last limb is dropped
wrapping_add_u128(a, b) == AddFrom(a, b, 1, 0)

RECURSIVE ShlFrom(_, _, _)
ShlFrom(a, i, carry) ==
    IF i > Limbs THEN <<>>
    ELSE LET t == a[i] * 32 + carry
         IN  <<t % Limb>> \o ShlFrom(a, i + 1, t \div Limb)

\* hash << 5 on a u128: the bits shifted out are dropped
shl5(a) == ShlFrom(a, 1, 0)

\* a step of the hash that leaves out the + hash: hash * 32 + c
djb2_step_no_add(hash, c) == wrapping_add_u128(shl5(hash), U128(c))

\* hash = ((hash << 5).wrapping_add(hash)).wrapping_add(c as u128)
djb2_step(hash, c) == wrapping_add_u128(wrapping_add_u128(shl5(hash), hash), U128(c))

\* TRUE; evaluating it computes v.  The loop below computes hash in every
\* iteration, where the evaluator would defer all of them to the end.
Computed(v) == v = v

RECURSIVE Djb2From(_, _, _)
\* for c in input.chars() { hash = .. }, from the i-th character on
Djb2From(hash, input, i) ==
    IF i > Len(input) THEN hash
    ELSE LET next == djb2_step(hash, input[i])
         IN  IF Computed(next) THEN Djb2From(next, input, i + 1) ELSE next

\* let mut hash: u128 = 5381; for c in input.chars() { .. }
djb2(input) == Djb2From(U128(5381), input, 1)

\* hash % (1u128 << 64): the four low limbs
rem_2_64(hash) == SubSeq(hash, 1, 4)

\* the sixteen hexadecimal digits of a value below 2^64, the most significant first
HexDigits(v) ==
    [i \in 1..16 |->
        LET limb == v[4 - ((i - 1) \div 4)]
            k    == (i - 1) % 4
        IN  IF k = 0 THEN limb \div 4096
            ELSE IF k = 1 THEN (limb \div 256) % 16
            ELSE IF k = 2 THEN (limb \div 16) % 16
            ELSE limb % 16]

RECURSIVE Significant(_)
Significant(ds) ==
    IF Len(ds) > 1 /\ ds[1] = 0 THEN Significant(Tail(ds)) ELSE ds

\* the character of a hexadecimal digit in uppercase
upper_hex_char(d) == IF d < 10 THEN 48 + d ELSE 55 + d

\* the character of a hexadecimal digit, as {:x} writes it
hex_char(d) == IF d < 10 THEN 48 + d ELSE 87 + d

\* format!("{:x}", v)
format_x(v) == LET ds == Significant(HexDigits(v)) IN [i \in 1..Len(ds) |-> hex_char(ds[i])]

\* format!("{:016x}", v): {:x} padded with '0' on the left to sixteen characters
format_016x(v) ==
    LET t == format_x(v)
    IN  IF Len(t) >= 16 THEN t ELSE [i \in 1..(16 - Len(t)) |-> 48] \o t

RECURSIVE decimal(_)
\* format!("{}", i) of an unsigned integer
decimal(i) == IF i < 10 THEN <<48 + i>> ELSE decimal(i \div 10) \o <<48 + (i % 10)>>

AddrOk(value) == [tag |-> "Ok", value |-> value]

AddrErr(e) == [tag |-> e, value |-> <<>>]

RECURSIVE HashRounds(_, _, _)
\* the loop of from_solana from round i on; the value is hashes.join("")
HashRounds(prev_hash, i, hashes) ==
    IF i >= ROUNDS THEN hashes
    ELSE LET input    == prev_hash \o decimal(i)
             hash_hex == format_016x(rem_2_64(djb2(input)))
         IN  HashRounds(hash_hex, i + 1, hashes \o hash_hex)

from_solana(solana_address) ==
    IF \/ len(solana_address) # SOLANA_ADDRESS_LENGTH
       \/ ~(\A i \in 1..Len(solana_address) : is_ascii_alphanumeric(solana_address[i]))
    THEN AddrErr("InvalidSolanaAddress")
    ELSE AddrOk(DADBS_PREFIX \o HashRounds(solana_address, 0, <<>>))

from_string(dadbs_address) ==
    IF ~starts_with(dadbs_address, DADBS_PREFIX)
    THEN AddrErr("InvalidDADBSAddress")
    ELSE LET addr_part == SubSeq(dadbs_address, Len(DADBS_PREFIX) + 1, Len(dadbs_address))
         IN  IF \/ len(addr_part) # ADDR_PART_LENGTH
                \/ ~(\A i \in 1..Len(addr_part) : is_ascii_hexdigit(addr_part[i]))
             THEN AddrErr("InvalidDADBSAddress")
             ELSE AddrOk(dadbs_address)

\* DADBSAddress::as_string
as_string(address) == address.value

(***************************************************************************)
(* The translator's inputs and its specification: a constructor is applied *)
(* to a string, and its result is then parsed again or dropped.            *)
(***************************************************************************)
\* "DYw8jCTfwHNRJhhmFcbXvVDTqWMEVFBX6ZKUmG5CNSKK"
ExampleSolana ==
    <<68, 89, 119, 56, 106, 67, 84, 102, 119, 72, 78, 82, 74, 104, 104, 109,
    70, 99, 98, 88, 118, 86, 68, 84, 113, 87, 77, 69, 86, 70, 66, 88,
    54, 90, 75, 85, 109, 71, 53, 67, 78, 83, 75, 75>>

\* "1234567890abcdef"
ExampleHex16 == <<49, 50, 51, 52, 53, 54, 55, 56, 57, 48, 97, 98, 99, 100, 101, 102>>

\* "dadbs" followed by ExampleHex16 four times
ExampleDadbs == DADBS_PREFIX \o ExampleHex16 \o ExampleHex16 \o ExampleHex16 \o ExampleHex16

\* s with its i-th character replaced by c
With(s, i, c) == [s EXCEPT ![i] = c]

\* characters at the edges of the classes the checks test, and outside ASCII:
\* / 0 9 : @ A F G Z [ ` a f g z { space ! and e-acute, a CJK character, an emoji
EdgeChars ==
    {47, 48, 57, 58, 64, 65, 70, 71, 90, 91, 96, 97, 102, 103, 122, 123, 32, 33,
     233, 36136, 128512}

SolanaInputs ==
    {With(ExampleSolana, i, c) : i \in {1, 22, 44}, c \in EdgeChars}
    \cup {SubSeq(ExampleSolana, 1, n) : n \in {0, 1, 42, 43}}
    \cup {ExampleSolana \o SubSeq(ExampleSolana, 1, n) : n \in {1, 2, 44}}
    \cup {SubSeq(ExampleSolana, 1, n) \o <<c>> : n \in {41, 42, 43}, c \in {233, 36136, 33}}
    \cup {ExampleSolana, ExampleSolana \o <<33, 64>>}

ParseInputs ==
    {With(ExampleDadbs, i, c) : i \in {1, 5, 6, 37, 69}, c \in EdgeChars}
    \cup {SubSeq(ExampleDadbs, 1, n) : n \in {0, 4, 5, 6, 37, 68}}
    \cup {ExampleDadbs \o SubSeq(ExampleHex16, 1, n) : n \in {1, 16}}
    \cup {SubSeq(ExampleDadbs, 1, n) \o <<c>> : n \in {66, 67, 68}, c \in {233, 36136, 103}}
    \cup {ExampleDadbs,
          <<120, 120>> \o SubSeq(ExampleDadbs, 6, 69),
          SubSeq(ExampleDadbs, 6, 69),
          <<32>> \o ExampleDadbs}

NoResult == AddrErr("None")

InitAddress ==
    /\ addr_call = "None"
    /\ addr_arg = <<>>
    /\ addr_result = NoResult

\* DADBSAddress::from_solana(x)
FromSolana ==
    /\ addr_call = "None"
    /\ \E x \in SolanaInputs :
          /\ addr_arg' = x
          /\ addr_result' = from_solana(x)
    /\ addr_call' = "from_solana"
    /\ UNCHANGED <<ledgerVars, consensusVars>>

\* DADBSAddress::from_string(s)
FromString ==
    /\ addr_call = "None"
    /\ \E x \in ParseInputs :
          /\ addr_arg' = x
          /\ addr_result' = from_string(x)
    /\ addr_call' = "from_string"
    /\ UNCHANGED <<ledgerVars, consensusVars>>

\* DADBSAddress::from_string(a.as_string()) of the address a that from_solana made
FromStringOfDerived ==
    /\ addr_call = "from_solana"
    /\ addr_result.tag = "Ok"
    /\ addr_arg' = as_string(addr_result)
    /\ addr_result' = from_string(as_string(addr_result))
    /\ addr_call' = "from_string"
    /\ UNCHANGED <<ledgerVars, consensusVars>>

\* the result is dropped
Drop ==
    /\ addr_call # "None"
    /\ addr_call' = "None"
    /\ addr_arg' = <<>>
    /\ addr_result' = NoResult
    /\ UNCHANGED <<ledgerVars, consensusVars>>

NextAddress == FromSolana \/ FromString \/ FromStringOfDerived \/ Drop

\* the ledger at rest, for the consensus manager's specifications
LedgerAtRest ==
    /\ accounts = InitialAccounts
    /\ overflow_checks = FALSE
    /\ last = NoInstruction
    /\ ret = [value |-> "Ok", at |-> 0]

\* the manager at rest, for the ledger's specification
ManagerAtRest ==
    /\ now = 0
    /\ validators = <<>>
    /\ consensus_timeout = 1
    /\ last_block_hash = DEFAULT_HASH
    /\ last_consensus = 0
    /\ call = NoCall

\* With no validator the loop body is never entered: Answer is not a step of
\* the manager as constructed.
NextNew == Tick \/ Call \/ VerifySignature \/ VerifyTimestamp \/ ForValidator \/ Quorum \/ Finish

NextRegistry == NextNew \/ Answer

LedgerInit == InitLedger /\ ManagerAtRest /\ InitAddress

SpecLedger == LedgerInit /\ [][NextLedger]_vars

NewInit == InitNew /\ LedgerAtRest /\ InitAddress

SpecNew == NewInit /\ [][NextNew]_vars

RegistryInit == InitRegistry /\ LedgerAtRest /\ InitAddress

AddressInit == InitAddress /\ LedgerAtRest /\ ManagerAtRest

SpecAddress == AddressInit /\ [][NextAddress]_vars

SpecRegistry == RegistryInit /\ [][NextRegistry]_vars

\* The manager's own steps are taken whenever they can be (the executor polls a
\* ready future); nothing makes a validator answer or the clock advance.
Progress ==
    /\ WF_vars(VerifySignature) /\ WF_vars(VerifyTimestamp)
    /\ WF_vars(ForValidator) /\ WF_vars(Quorum) /\ WF_vars(Finish)

FairSpecRegistry == SpecRegistry /\ Progress

\* the ledger beside a clock: time passes between the instructions
NextLedgerClock == NextLedger \/ Tick

SpecLedgerClock == LedgerInit /\ [][NextLedgerClock]_vars

\* the whole program as constructed
Init == InitLedger /\ InitNew /\ InitAddress

Next == NextLedger \/ NextNew \/ Answer \/ NextAddress

Spec == Init /\ [][Next]_vars


(***************************************************************************)
(* Claims about the stake program.  A step of the host that executes an    *)
(* instruction leaves it in last' and its result in ret'; the accounts     *)
(* before the step are `accounts`, those after it accounts'.               *)
(***************************************************************************)
Executes(kind) == Idle /\ last'.kind = kind

\* the account holds a record of the stake program
HasRecord(acc, k) == acc[k].owner = PROGRAM_ID /\ acc[k].data # NoData

RecordOf(acc, k) == Decode(acc[k].data)

\* C3: a Withdraw succeeds only on a record the program owns, for its owner,
\* unlocked, and for no more than its amount; a successful one takes exactly
\* `amount` off the record and adds exactly `amount` to the requester's
\* balance; and withdrawing the whole amount of an unlocked record as its
\* owner succeeds and leaves the record at 0.
C3_WithdrawContract ==
    [][Executes("Withdraw") =>
        LET ix == last'
            owned == HasRecord(accounts, ix.stake)
        IN  /\ ret'.value = "Ok" =>
                 /\ owned
                 /\ RecordOf(accounts, ix.stake).owner = ix.staker
                 /\ RecordOf(accounts, ix.stake).locked_until <= 0
                 /\ ~Less(RecordOf(accounts, ix.stake).amount, ix.amount)
                 /\ HasRecord(accounts', ix.stake)
                 /\ AddExact(RecordOf(accounts', ix.stake).amount, ix.amount)
                       = RecordOf(accounts, ix.stake).amount
                 /\ accounts'[ix.staker].lamports
                       = AddExact(accounts[ix.staker].lamports, ix.amount)
            /\ ( /\ owned
                 /\ RecordOf(accounts, ix.stake).owner = ix.staker
                 /\ RecordOf(accounts, ix.stake).locked_until <= 0
                 /\ RecordOf(accounts, ix.stake).amount = ix.amount ) =>
                 /\ ret'.value = "Ok"
                 /\ RecordOf(accounts', ix.stake).amount = Zero
    ]_vars

\* C4: a Withdraw submitted by a party that is not the record's owner and bears
\* no signature of the owner never changes the stake account: it takes
\* nothing off the record and moves no lamports out of the account.
C4_OnlyOwnerWithdraws ==
    [][( /\ Executes("Withdraw")
         /\ HasRecord(accounts, last'.stake)
         /\ RecordOf(accounts, last'.stake).owner # last'.submitter
         /\ RecordOf(accounts, last'.stake).owner \notin last'.signers ) =>
            accounts'[last'.stake] = accounts[last'.stake]
    ]_vars

\* C5: a CreateStake or Withdraw that the program ends with an error (a return
\* of Err, a failed create-and-fund call, a failed record write, a panic)
\* leaves every account, record and balance, as it was before the instruction:
\* the program has written nothing when it fails.  And in every state an
\* account the program owns is funded and carries a written record, and
\* whatever an instruction takes off a stake account's balance it takes off
\* its record.
C5_FailedInstructionChangesNothing ==
    /\ [][(Idle /\ last'.kind \in {"CreateStake", "Withdraw"}) =>
            /\ (ret'.value # "Ok" /\ ret'.at # 0) => accounts' = accounts
            /\ \A k \in Keys :
                  (HasRecord(accounts, k) /\ HasRecord(accounts', k)) =>
                      AddExact(accounts'[k].lamports, RecordOf(accounts, k).amount)
                         = AddExact(accounts[k].lamports, RecordOf(accounts', k).amount)
       ]_vars
    /\ [](\A k \in Keys :
            accounts[k].owner = PROGRAM_ID =>
               /\ accounts[k].data # NoData
               /\ accounts[k].data # ZeroedData
               /\ accounts[k].lamports # Zero)

\* in the build that checks its arithmetic, the owner of a record that is not
\* locked asked for more than the record holds and got InsufficientFunds from
\* line 144, past every other test and just before the lamports would move
C5_Witness ==
    /\ overflow_checks
    /\ last.kind = "Withdraw"
    /\ ret = [value |-> "InsufficientFunds", at |-> 144]
    /\ HasRecord(accounts, last.stake)
    /\ RecordOf(accounts, last.stake).owner = last.staker
    /\ RecordOf(accounts, last.stake).locked_until <= 0
    /\ Less(RecordOf(accounts, last.stake).amount, last.amount)

\* the staker signs and holds amount + surcharge in an account without data,
\* and the stake account is new and signs
CanFund(acc, ix) ==
    /\ ix.staker \in ix.signers /\ ix.stake \in ix.signers
    /\ acc[ix.stake] = Account(Zero, SYSTEM_PROGRAM, NoData)
    /\ acc[ix.staker].data = NoData
    /\ ~Less(acc[ix.staker].lamports, AddExact(ix.amount, RentMinimumBalance))

\* C6: CreateStake fails with ArgumentError (InvalidArgument) for every amount
\* below 10,000,000,000 and every lock period, creating nothing; for every
\* amount from 10,000,000,000 on that the staker can fund it succeeds, and
\* the new record is {owner: staker, amount, locked_until: T, is_active: true}.
C6_CreateStakeContract ==
    [][Executes("CreateStake") =>
        LET ix == last'
        IN  /\ Less(ix.amount, Sol(10)) =>
                 /\ ret'.value = "InvalidArgument"
                 /\ accounts' = accounts
            /\ (~Less(ix.amount, Sol(10)) /\ CanFund(accounts, ix)) =>
                 /\ ret'.value = "Ok"
                 /\ HasRecord(accounts', ix.stake)
                 /\ RecordOf(accounts', ix.stake)
                       = StakeAccount(ix.staker, ix.amount, ix.lock_period, TRUE)
    ]_vars

\* a stake of exactly 10,000,000,000 was created, with a lock period
C6_Witness ==
    /\ last.kind = "CreateStake" /\ ret.value = "Ok"
    /\ last.amount = Sol(10) /\ last.lock_period > 0
    /\ RecordOf(accounts, last.stake) = StakeAccount(last.staker, Sol(10), last.lock_period, TRUE)

\* C9: Withdraw reports the first check that fails, in the order storage
\* ownership (IncorrectProgramId), requester = owner (InvalidAccountData),
\* lock (InvalidArgument), funds (InsufficientFunds).
C9_WithdrawErrorOrder ==
    [][Executes("Withdraw") =>
        LET ix == last'
        IN  IF accounts[ix.stake].owner # PROGRAM_ID
            THEN ret'.value = "IncorrectProgramId"
            ELSE accounts[ix.stake].data # NoData =>
                 LET record == RecordOf(accounts, ix.stake)
                 IN  IF record.owner # ix.staker
                     THEN ret'.value = "InvalidAccountData"
                     ELSE IF record.locked_until > 0
                     THEN ret'.value = "InvalidArgument"
                     ELSE Less(record.amount, ix.amount) => ret'.value = "InsufficientFunds"
    ]_vars

\* somebody other than the owner asked for more than a locked record holds and
\* was told PermissionDenied (InvalidAccountData)
C9_Witness ==
    /\ last.kind = "Withdraw" /\ ret.value = "InvalidAccountData"
    /\ HasRecord(accounts, last.stake)
    /\ RecordOf(accounts, last.stake).locked_until > 0
    /\ Less(RecordOf(accounts, last.stake).amount, last.amount)

\* what the instructions the host may be given would return in this state
Results ==
    {Execute(accounts, overflow_checks, ix).ret :
        ix \in CreateStakeInstructions \cup WithdrawInstructions}

\* the lines of stake.rs that return the five error kinds of the ledger:
\* ArgumentError, OwnershipError, PermissionDenied, StillLocked, InsufficientFunds
KindSites == {74, 126, 134, 139, 144}

\* C10: the five error kinds are told apart by the returned value: two
\* instructions that fail for different ones of these reasons never return
\* the same error value.
C10_ErrorKindsDistinct ==
    Idle =>
        \A r1 \in Results, r2 \in Results :
            (r1.at \in KindSites /\ r2.at \in KindSites /\ r1.at # r2.at) =>
                r1.value # r2.value

(***************************************************************************)
(* Claims about the address translator.  FormatError is the translator's   *)
(* AddressError: InvalidSolanaAddress of from_solana, InvalidDADBSAddress  *)
(* of from_string.                                                         *)
(***************************************************************************)
IsLowerHex(c) == c \in 48..57 \/ c \in 97..102

\* the namespace prefix followed by exactly 64 characters of [0-9a-f]
InternalGrammar(s) ==
    /\ Len(s) = Len(DADBS_PREFIX) + 64
    /\ SubSeq(s, 1, Len(DADBS_PREFIX)) = DADBS_PREFIX
    /\ \A i \in (Len(DADBS_PREFIX) + 1)..Len(s) : IsLowerHex(s[i])

\* exactly 44 characters, each an ASCII letter or digit
ValidExternal(x) ==
    /\ Len(x) = 44
    /\ \A i \in 1..Len(x) : x[i] \in 48..57 \/ x[i] \in 65..90 \/ x[i] \in 97..122

\* C11: from_string(s) succeeds if and only if s is the prefix followed by
\* exactly 64 characters of [0-9a-f]; every other s fails with
\* InvalidDADBSAddress.
C11_ParseAcceptsGrammarOnly ==
    addr_call = "from_string" =>
        /\ addr_result.tag = "Ok" <=> InternalGrammar(addr_arg)
        /\ addr_result.tag # "Ok" => addr_result.tag = "InvalidDADBSAddress"

\* what from_solana makes of "DYw8jCTfwHNRJhhmFcbXvVDTqWMEVFBX6ZKUmG5CNSKK":
\* "dadbs269c3ffc7fcd74f8c97ab08fdcaba2a9b824dd81cdf6a0b25df13cd0e039d431"
DerivedExample ==
    <<100, 97, 100, 98, 115, 50, 54, 57, 99, 51, 102, 102, 99, 55, 102, 99,
      100, 55, 52, 102, 56, 99, 57, 55, 97, 98, 48, 56, 102, 100, 99, 97,
      98, 97, 50, 97, 57, 98, 56, 50, 52, 100, 100, 56, 49, 99, 100, 102,
      54, 97, 48, 98, 50, 53, 100, 102, 49, 51, 99, 100, 48, 101, 48, 51,
      57, 100, 52, 51, 49>>

\* C12: for every valid external address x, from_solana(x) is the prefix
\* followed by exactly 64 lowercase hex characters, and from_string of it
\* succeeds with an address equal to it.
C12_DeriveThenParse ==
    /\ [](( addr_call = "from_solana" /\ ValidExternal(addr_arg) ) =>
            /\ addr_result.tag = "Ok"
            /\ InternalGrammar(addr_result.value))
    /\ [][( addr_call = "from_solana" /\ addr_call' = "from_string" ) =>
            addr_result' = addr_result]_vars

\* the address made from the example was parsed again, and accepted
C12_Witness ==
    /\ addr_call = "from_string"
    /\ addr_arg = DerivedExample
    /\ addr_result = AddrOk(DerivedExample)

\* The reference derivation, on sixteen hexadecimal digits, the least
\* significant first: acc = acc * 33 + code_point(c), reduced mod 2^64.
RECURSIVE RefMulAdd(_, _, _)
RefMulAdd(acc, i, carry) ==
    IF i > 16 THEN <<>>
    ELSE LET t == acc[i] * 33 + carry
         IN  <<t % 16>> \o RefMulAdd(acc, i + 1, t \div 16)

RECURSIVE RefHashFrom(_, _, _)
RefHashFrom(acc, input, i) ==
    IF i > Len(input) THEN acc
    ELSE LET next == RefMulAdd(acc, 1, input[i])
         IN  IF Computed(next) THEN RefHashFrom(next, input, i + 1) ELSE next

\* 5381 = 0x1505
RefStart == <<5, 0, 5, 1, 0, 0, 0, 0, 0, 0, 0, 0, 0, 0, 0, 0>>

\* "0123456789abcdef"
RefAlphabet == <<48, 49, 50, 51, 52, 53, 54, 55, 56, 57, 97, 98, 99, 100, 101, 102>>

\* a round: the hash of input, written as 16 zero-padded lowercase hex digits
RefRound(input) ==
    LET acc == RefHashFrom(RefStart, input, 1)
    IN  [i \in 1..16 |-> RefAlphabet[acc[17 - i] + 1]]

\* four rounds; round 0 hashes x followed by first, round i + 1 hashes the
\* output of round i followed by decimal(i + 1)
RefDerive(x, first) ==
    LET o0 == RefRound(x \o first)
        o1 == RefRound(o0 \o <<49>>)
        o2 == RefRound(o1 \o <<50>>)
        o3 == RefRound(o2 \o <<51>>)
    IN  DADBS_PREFIX \o o0 \o o1 \o o2 \o o3

\* C13 as stated: from_solana(x) is the reference derivation whose round 0
\* hashes exactly the string x.
C13_RoundZeroHashesAddress ==
    ( addr_call = "from_solana" /\ ValidExternal(addr_arg) ) =>
        addr_result = AddrOk(RefDerive(addr_arg, <<>>))

\* C13: from_solana(x) is the reference derivation in which every round
\* hashes its input followed by the decimal round number: round 0 hashes x
\* followed by "0", round i + 1 hashes the output of round i followed by
\* decimal(i + 1); each round is DJB2 (start 5381, acc = acc * 33 + code
\* point) reduced mod 2^64 and written as 16 zero-padded lowercase hex digits.
C13_RoundZeroHashesAddressAndZero ==
    ( addr_call = "from_solana" /\ ValidExternal(addr_arg) ) =>
        addr_result = AddrOk(RefDerive(addr_arg, <<48>>))

\* the example address was derived, to the value the code computes for it
C13_Witness ==
    /\ addr_call = "from_solana"
    /\ addr_arg = ExampleSolana
    /\ addr_result = AddrOk(DerivedExample)

\* C14: from_solana fails, with InvalidSolanaAddress, if and only if its input
\* is not exactly 44 characters long or has a character that is not an ASCII
\* letter or digit; every other input succeeds.
C14_DeriveRejectsMalformedOnly ==
    addr_call = "from_solana" =>
        /\ addr_result.tag = "InvalidSolanaAddress" <=> ~ValidExternal(addr_arg)
        /\ addr_result.tag \in {"Ok", "InvalidSolanaAddress"}

\* an input of 43 characters that is 44 bytes long was rejected
C14_Witness ==
    /\ addr_call = "from_solana"
    /\ addr_result.tag = "InvalidSolanaAddress"
    /\ Len(addr_arg) = 43 /\ len(addr_arg) = 44

(***************************************************************************)
(* Claims about the consensus manager.                                     *)
(***************************************************************************)
\* the number of validators that confirmed the transaction of the call
Confirming == Cardinality({i \in 1..Len(call.answers) : call.answers[i]})

\* the age verify_timestamp computed
AgeChecked == duration_since(call.checked_at, call.tx.timestamp)

\* the age of the transaction when validate_transaction was called
AgeCalled == duration_since(call.called_at, call.tx.timestamp)

\* every validator of the set was queried and answered
AllAnswered == Len(call.answers) = Len(validators)

\* confirmations the set of n validators needs, for the sizes the spec tabulates
Needed(n) == CASE n = 3 -> 3 [] n = 4 -> 3 [] n = 5 -> 4 [] OTHER -> 0

\* C1: validate_transaction returns true if and only if the signature verifies,
\* the age verify_timestamp computes is strictly below consensus_timeout, and
\* the number k of confirming validators exceeds floor(2n/3); for n = 3, 4, 5
\* that is 3, 3 and 4 confirmations, and one fewer gives false.
C1_QuorumVerdict ==
    call.pc = "returned" =>
        LET n == Len(validators)
            k == Confirming
            fresh == call.checked_at >= 0 /\ AgeChecked < consensus_timeout
        IN  /\ call.verdict <=>
                  (call.tx.signature_ok /\ fresh /\ AllAnswered /\ 3 * k > 2 * n)
            /\ (call.tx.signature_ok /\ fresh) => AllAnswered
            /\ (call.tx.signature_ok /\ fresh /\ n \in {3, 4, 5}) =>
                  (call.verdict <=> k >= Needed(n))

\* a call on four validators returned true with exactly three confirmations
C1_Witness ==
    /\ call.pc = "returned" /\ call.verdict
    /\ Len(validators) = 4 /\ Confirming = 3

\* C2: the confirmation round of a call ends no later than consensus_timeout
\* after it began, whatever the validators do: no call is still waiting for a
\* validator's answer once that deadline has passed.
C2_RoundEndsByDeadline ==
    call.pc = "await" => duration_since(now, call.checked_at) <= consensus_timeout

\* the same claim as a property of whole behaviours: every call that is made
\* returns, also when a validator never answers
C2_AlwaysReturns == (call.pc # "idle") ~> (call.pc = "returned")

\* C7: validate_transaction returns false for every transaction whose age is at
\* least consensus_timeout, be it when the call is made or when
\* verify_timestamp reads the clock, whatever the signature and the validators.
C7_StaleRejected ==
    call.pc = "returned" =>
        /\ AgeCalled >= consensus_timeout => ~call.verdict
        /\ (call.checked_at >= 0 /\ AgeChecked >= consensus_timeout) => ~call.verdict

\* a validly signed transaction exactly consensus_timeout old was rejected by a
\* manager that has validators
C7_Witness ==
    /\ call.pc = "returned" /\ ~call.verdict
    /\ call.tx.signature_ok
    /\ call.checked_at >= 0 /\ AgeChecked = consensus_timeout
    /\ consensus_timeout > 0
    /\ Len(validators) > 0

\* C8: the manager ConsensusManager::new builds has no validator, no step gives
\* it one, and so no call to validate_transaction returns true.
C8_NeverAccepts ==
    /\ validators = <<>>
    /\ call.pc = "returned" => ~call.verdict

\* a validly signed, fresh transaction reached the quorum test and was rejected
C8_Witness ==
    /\ call.pc = "returned" /\ ~call.verdict
    /\ call.tx.signature_ok
    /\ call.checked_at >= 0 /\ AgeChecked < consensus_timeout
    /\ validators = <<>>

\* C15: in a round with at least two validators the queries are issued
\* together: whenever the call awaits a validator's answer, the query to
\* every validator of the set has been issued.
C15_QueriesIssuedTogether ==
    ( call.pc = "await" /\ Len(validators) >= 2 ) => Issued(call) = Len(validators)

\* C16: the checks run in the order signature, timestamp, quorum and stop at
\* the first that fails: no validator is queried, nor the timestamp read, for
\* a transaction whose signature fails; no validator is queried for one whose
\* timestamp fails; and when both pass every validator is queried once, in
\* order, each awaited query ending with its one answer.
C16_ShortCircuitNoRetry ==
    /\ [](call.pc # "idle" =>
            /\ ~call.tx.signature_ok => (Issued(call) = 0 /\ call.checked_at = -1)
            /\ ( call.checked_at >= 0 /\ AgeChecked >= consensus_timeout ) =>
                  Issued(call) = 0
            /\ Issued(call) <= Len(validators)
            /\ ( call.pc = "returned" /\ call.tx.signature_ok
                 /\ call.checked_at >= 0 /\ AgeChecked < consensus_timeout ) =>
                  Issued(call) = Len(validators))
    /\ [][( call.pc = "await" /\ call'.pc # "await" ) =>
            Len(call'.answers) = Len(call.answers) + 1]_vars

\* a transaction with a bad signature was rejected by a manager with three
\* validators, none of which was asked
C16_Witness ==
    /\ call.pc = "returned" /\ ~call.verdict
    /\ ~call.tx.signature_ok
    /\ Len(validators) = 3 /\ call.answers = <<>>

\* C17: when a call returns true, last_consensus has been set to a time of
\* that round and last_block_hash has been replaced; when it returns false
\* both are as they were.
C17_BookkeepingUpdated ==
    [][( call.pc # "returned" /\ call'.pc = "returned" ) =>
        IF call'.verdict
        THEN /\ last_consensus' >= call.called_at
             /\ last_block_hash' # last_block_hash
        ELSE UNCHANGED <<last_block_hash, last_consensus>>
    ]_vars

\* C18: a record created with lock_period = T > 0 refuses its owner's
\* Withdraw of no more than its amount as StillLocked (InvalidArgument of
\* the lock test) while the time is before T, and no longer once the time
\* has reached T.
C18_LockExpires ==
    [][( /\ Executes("Withdraw")
         /\ HasRecord(accounts, last'.stake)
         /\ RecordOf(accounts, last'.stake).owner = last'.staker
         /\ RecordOf(accounts, last'.stake).locked_until > 0
         /\ ~Less(RecordOf(accounts, last'.stake).amount, last'.amount) ) =>
            IF now < RecordOf(accounts, last'.stake).locked_until
            THEN ret'.value = "InvalidArgument" /\ ret'.at = 139
            ELSE ret'.at # 139
    ]_vars

\* C19: a successful CreateStake takes exactly amount + surcharge, the sum of
\* the integers, from the staker and puts it into the new account; and no
\* record states an amount larger than its account's balance.
C19_SumNeverWraps ==
    /\ [][( Executes("CreateStake") /\ ret'.value = "Ok" ) =>
            LET ix  == last'
                sum == AddExact(ix.amount, RentMinimumBalance)
            IN  /\ accounts[ix.staker].lamports
                      = AddExact(accounts'[ix.staker].lamports, sum)
                /\ accounts'[ix.stake].lamports = sum
       ]_vars
    /\ [](\A k \in Keys :
            HasRecord(accounts, k) =>
               ~Less(accounts[k].lamports, RecordOf(accounts, k).amount))

\* C20: a record is changed only by a successful Withdraw, and only in its
\* amount; every record is active, its amount 0 included, and its account's
\* balance is its amount plus the surcharge paid when it was created.
C20_RecordChangedOnlyByWithdraw ==
    /\ [][\A k \in Keys :
            ( HasRecord(accounts, k) /\ accounts'[k].data # accounts[k].data ) =>
               /\ last'.kind = "Withdraw" /\ ret'.value = "Ok"
               /\ HasRecord(accounts', k)
               /\ RecordOf(accounts', k)
                     = [RecordOf(accounts, k) EXCEPT !.amount = RecordOf(accounts', k).amount]
       ]_vars
    /\ [](\A k \in Keys :
            HasRecord(accounts, k) =>
               /\ RecordOf(accounts, k).is_active
               /\ accounts[k].lamports
                     = AddExact(RecordOf(accounts, k).amount, RentMinimumBalance))

====
